---------------------------- MODULE Spec2Model ----------------------------
(***************************************************************************)
(* Model of src/main.py, class BambuLabPresence: the MQTT callback that    *)
(* merges printer reports into the object's fields and resolves            *)
(* current_status, and the tick loop that renders the fields to the        *)
(* Discord presence under a 15 second throttle.                            *)
(*                                                                         *)
(* Python values are tagged records, so that a field can hold a number, a  *)
(* string, None or a dict as it can in the program: [num |-> 60],          *)
(* [str |-> "IDLE"], [null |-> TRUE], [bool |-> FALSE], [obj |-> f].       *)
(* Numbers are integers (the floats of the program with a zero fraction).  *)
(***************************************************************************)
EXTENDS Integers, Sequences, FiniteSets, TLC

VARIABLES
    self,         \* the BambuLabPresence object's fields
    now,          \* time.time()
    run_pc,       \* position of run(): "init", "discord", "check", "loop",
                  \* "blocked", "finally" or "done"
    sleep_until,  \* end of the time.sleep(2) that follows each update_presence
    tick,         \* what the last update_presence call did
    presence,     \* the payload the display client accepted last
    emitted,      \* how many payloads it has accepted
    mqtt_pc,      \* statement the MQTT thread is at in handle_report_message
    mqtt_pd,      \* the print object that thread is merging
    mqtt_time,    \* its current_time (line 165)
    stable,       \* the telemetry fields as the last whole callback left them
    temp_read_at, \* when each actual temperature was last read (not in the code)
    handled,      \* how the last on_message call ended
    ended         \* how the main thread stopped: blocked in a display call, and
                  \* what the finally block of run() attempted

vars == <<self, now, run_pc, sleep_until, tick, presence, emitted,
          mqtt_pc, mqtt_pd, mqtt_time, stable, temp_read_at, ended, handled>>

---------------------------------------------------------------------------
(* Python values *)

Num(n) == [num |-> n]
Str(s) == [str |-> s]
Bool(b) == [bool |-> b]
Obj(f) == [obj |-> f]
None == [null |-> TRUE]

IsNum(v) == DOMAIN v = {"num"}
IsStr(v) == DOMAIN v = {"str"}
IsBool(v) == DOMAIN v = {"bool"}
IsObj(v) == DOMAIN v = {"obj"}

\* The numerals among the strings of the model: float("60") is 60.0.
Numerals == ("60" :> 60) @@ ("5" :> 5)

\* float(v): a number, a bool or a numeral string converts; None, a dict
\* or any other string raises (TypeError, ValueError).
FloatOf(v) ==
    IF IsNum(v) THEN [ok |-> TRUE, val |-> v.num]
    ELSE IF IsBool(v) THEN [ok |-> TRUE, val |-> IF v.bool THEN 1 ELSE 0]
    ELSE IF IsStr(v) /\ v.str \in DOMAIN Numerals
         THEN [ok |-> TRUE, val |-> Numerals[v.str]]
    ELSE [ok |-> FALSE, val |-> 0]

\* int(v): on the integers of the model it converts what float converts.
IntOf(v) == FloatOf(v)

\* Python truthiness.
Truthy(v) ==
    IF IsNum(v) THEN v.num # 0
    ELSE IF IsStr(v) THEN v.str # ""
    ELSE IF IsBool(v) THEN v.bool
    ELSE IF IsObj(v) THEN DOMAIN v.obj # {}
    ELSE FALSE

\* d.get(key, default) of a dict d.
DictGet(d, key, default) == IF key \in DOMAIN d THEN d[key] ELSE default

---------------------------------------------------------------------------
(* Program constants *)

update_interval == 15
temp_timeout == 5
idle_message_interval == 600
sleep_seconds == 2

idle_messages == {"Printer Online - Ready to Print",
                  "Waiting for Next Print Job",
                  "Bambu Lab Printer Standing By",
                  "System Ready"}

status_mapping ==
    [s \in {"IDLE", "RUNNING", "PAUSE", "FINISH", "PREPARE", "HEAT", "HOME",
            "CLEAN", "CALIBRATE", "FILAMENT", "UNLOAD_FILAMENT",
            "CHANGE_FILAMENT", "MANUAL_LEVELING", "OFFLINE", "UNKNOWN",
            "QUEUED", "SLICING", "UPLOADING", "FAILED"} |->
        CASE s = "IDLE" -> "Ready"
          [] s = "RUNNING" -> "Printing"
          [] s = "PAUSE" -> "Paused"
          [] s = "FINISH" -> "Print Complete"
          [] s = "PREPARE" -> "Preparing"
          [] s = "HEAT" -> "Preheating"
          [] s = "HOME" -> "Homing"
          [] s = "CLEAN" -> "Auto-Cleaning"
          [] s = "CALIBRATE" -> "Auto-Leveling"
          [] s = "FILAMENT" -> "Loading Filament"
          [] s = "UNLOAD_FILAMENT" -> "Unloading Filament"
          [] s = "CHANGE_FILAMENT" -> "Changing Filament"
          [] s = "MANUAL_LEVELING" -> "Manual Leveling"
          [] s = "OFFLINE" -> "Printer Offline"
          [] s = "UNKNOWN" -> "Status Unknown"
          [] s = "QUEUED" -> "Job Queued"
          [] s = "SLICING" -> "Preparing Print"
          [] s = "UPLOADING" -> "Uploading File"
          [] s = "FAILED" -> "Print Failed"]

\* The object as __init__ leaves it (lines 17-88).
InitSelf ==
    [RPC |-> "None",
     mqtt_client |-> "None",
     last_update_time |-> 0,
     selected_idle_message |-> None,
     sequence_id |-> 0,
     bed_temper |-> None,
     bed_target_temper |-> None,
     nozzle_temper |-> None,
     nozzle_target_temper |-> None,
     current_status |-> Str("IDLE"),
     current_progress |-> 0,
     last_known_file |-> None,
     is_printing |-> FALSE,
     current_layer |-> 0,
     total_layer_num |-> 0,
     remaining_time |-> 0,
     print_stage |-> None,
     print_sub_stage |-> None,
     print_error |-> 0,
     last_temp_update |-> 0,
     ams_status |-> 0,
     gcode_state |-> Str("IDLE"),
     upload_status |-> "idle",
     last_idle_message_time |-> 0]

---------------------------------------------------------------------------
(* handle_report_message, statement by statement.  Each statement yields   *)
(* the object after it and whether it raised; a statement that raises      *)
(* ends the handler with the assignments made so far in place.             *)

Ok(s) == [raised |-> FALSE, s |-> s]
Raise(s) == [raised |-> TRUE, s |-> s]

\* lines 168-170
MergeGcodeState(s, pd) ==
    IF "gcode_state" \in DOMAIN pd
    THEN Ok([s EXCEPT !.gcode_state = pd.gcode_state,
                      !.current_status = pd.gcode_state])
    ELSE Ok(s)

\* lines 173-175
MergeBedTemper(s, pd, t) ==
    IF "bed_temper" \in DOMAIN pd
    THEN IF FloatOf(pd.bed_temper).ok
         THEN Ok([s EXCEPT !.bed_temper = Num(FloatOf(pd.bed_temper).val),
                           !.last_temp_update = t])
         ELSE Raise(s)
    ELSE Ok(s)

\* lines 176-177
MergeBedTargetTemper(s, pd) ==
    IF "bed_target_temper" \in DOMAIN pd
    THEN IF FloatOf(pd.bed_target_temper).ok
         THEN Ok([s EXCEPT !.bed_target_temper =
                               Num(FloatOf(pd.bed_target_temper).val)])
         ELSE Raise(s)
    ELSE Ok(s)

\* lines 178-180
MergeNozzleTemper(s, pd, t) ==
    IF "nozzle_temper" \in DOMAIN pd
    THEN IF FloatOf(pd.nozzle_temper).ok
         THEN Ok([s EXCEPT !.nozzle_temper = Num(FloatOf(pd.nozzle_temper).val),
                           !.last_temp_update = t])
         ELSE Raise(s)
    ELSE Ok(s)

\* lines 181-182
MergeNozzleTargetTemper(s, pd) ==
    IF "nozzle_target_temper" \in DOMAIN pd
    THEN IF FloatOf(pd.nozzle_target_temper).ok
         THEN Ok([s EXCEPT !.nozzle_target_temper =
                               Num(FloatOf(pd.nozzle_target_temper).val)])
         ELSE Raise(s)
    ELSE Ok(s)

\* lines 185-186
MergePercent(s, pd) ==
    IF "mc_percent" \in DOMAIN pd
    THEN IF FloatOf(pd.mc_percent).ok
         THEN Ok([s EXCEPT !.current_progress = FloatOf(pd.mc_percent).val])
         ELSE Raise(s)
    ELSE Ok(s)

\* lines 187-188
MergeRemainingTime(s, pd) ==
    IF "mc_remaining_time" \in DOMAIN pd
    THEN IF IntOf(pd.mc_remaining_time).ok
         THEN Ok([s EXCEPT !.remaining_time = IntOf(pd.mc_remaining_time).val])
         ELSE Raise(s)
    ELSE Ok(s)

\* lines 189-190
MergeLayerNum(s, pd) ==
    IF "layer_num" \in DOMAIN pd
    THEN IF IntOf(pd.layer_num).ok
         THEN Ok([s EXCEPT !.current_layer = IntOf(pd.layer_num).val])
         ELSE Raise(s)
    ELSE Ok(s)

\* lines 191-192
MergeTotalLayerNum(s, pd) ==
    IF "total_layer_num" \in DOMAIN pd
    THEN IF IntOf(pd.total_layer_num).ok
         THEN Ok([s EXCEPT !.total_layer_num = IntOf(pd.total_layer_num).val])
         ELSE Raise(s)
    ELSE Ok(s)

\* lines 195-196
MergePrintError(s, pd) ==
    IF "print_error" \in DOMAIN pd
    THEN IF IntOf(pd.print_error).ok
         THEN Ok([s EXCEPT !.print_error = IntOf(pd.print_error).val])
         ELSE Raise(s)
    ELSE Ok(s)

\* A merge of the file name without the test of line 201: an empty name
\* is stored like any other.
MergeGcodeFile_Clearing(s, pd) ==
    IF "gcode_file" \in DOMAIN pd
    THEN Ok([s EXCEPT !.last_known_file = pd.gcode_file])
    ELSE Ok(s)

\* lines 199-202
MergeGcodeFile(s, pd) ==
    IF "gcode_file" \in DOMAIN pd /\ Truthy(pd.gcode_file)
    THEN Ok([s EXCEPT !.last_known_file = pd.gcode_file])
    ELSE Ok(s)

\* lines 205-208
UpdateIsPrinting(s) ==
    IF s.gcode_state \in {Str("RUNNING"), Str("PAUSE"), Str("PREPARE")}
    THEN Ok([s EXCEPT !.is_printing = TRUE])
    ELSE IF s.gcode_state \in {Str("IDLE"), Str("FAILED"), Str("FINISH")}
    THEN Ok([s EXCEPT !.is_printing = FALSE])
    ELSE Ok(s)

\* lines 211-212
MergePrintStage(s, pd) ==
    IF "mc_print_stage" \in DOMAIN pd
    THEN Ok([s EXCEPT !.print_stage = pd.mc_print_stage])
    ELSE Ok(s)

\* lines 213-214
MergePrintSubStage(s, pd) ==
    IF "mc_print_sub_stage" \in DOMAIN pd
    THEN Ok([s EXCEPT !.print_sub_stage = pd.mc_print_sub_stage])
    ELSE Ok(s)

\* stage_mapping.get(self.print_sub_stage, "PREPARE"), lines 128-135: the
\* keys are the ints 1..5, which True (== 1) matches too.
stage_mapping(sub) ==
    LET key == IF IsNum(sub) THEN sub.num
               ELSE IF IsBool(sub) /\ sub.bool THEN 1
               ELSE 0
    IN CASE key = 1 -> "HEAT"
         [] key = 2 -> "HOME"
         [] key = 3 -> "CLEAN"
         [] key = 4 -> "CALIBRATE"
         [] key = 5 -> "FILAMENT"
         [] OTHER -> "PREPARE"

SetStatus(s, label) == Ok([s EXCEPT !.current_status = Str(label)])

\* update_status, lines 104-146.  upload_data.get and online_data.get raise
\* on a value that is no dict, int() on a value that is no number, and the
\* stage_mapping lookup on an unhashable key (a dict).
update_status(s, pd) ==
    IF "upload" \in DOMAIN pd /\ ~IsObj(pd.upload) THEN Raise(s)
    ELSE IF "upload" \in DOMAIN pd
            /\ DictGet(pd.upload.obj, "status", None) # Str("idle")
    THEN SetStatus(s, "UPLOADING")
    ELSE IF s.print_error # 0
    THEN SetStatus(s, "ERROR_" \o ToString(s.print_error))
    ELSE IF "ams_status" \in DOMAIN pd /\ ~IntOf(pd.ams_status).ok
    THEN Raise(s)
    ELSE IF "ams_status" \in DOMAIN pd /\ IntOf(pd.ams_status).val \in {1, 2}
    THEN SetStatus(s, "CHANGE_FILAMENT")
    ELSE IF s.gcode_state = Str("RUNNING") /\ s.print_stage = Str("1")
    THEN IF IsObj(s.print_sub_stage) THEN Raise(s)
         ELSE SetStatus(s, stage_mapping(s.print_sub_stage))
    ELSE IF "online" \in DOMAIN pd /\ ~IsObj(pd.online) THEN Raise(s)
    ELSE IF "online" \in DOMAIN pd
            /\ ~Truthy(DictGet(pd.online.obj, "status", Bool(TRUE)))
    THEN SetStatus(s, "OFFLINE")
    ELSE Ok([s EXCEPT !.current_status = s.gcode_state])

LastStmt == 15

\* Statement k of handle_report_message after line 165, for print object pd
\* and current_time t.
Stmt(k, s, pd, t) ==
    CASE k = 1 -> MergeGcodeState(s, pd)
      [] k = 2 -> MergeBedTemper(s, pd, t)
      [] k = 3 -> MergeBedTargetTemper(s, pd)
      [] k = 4 -> MergeNozzleTemper(s, pd, t)
      [] k = 5 -> MergeNozzleTargetTemper(s, pd)
      [] k = 6 -> MergePercent(s, pd)
      [] k = 7 -> MergeRemainingTime(s, pd)
      [] k = 8 -> MergeLayerNum(s, pd)
      [] k = 9 -> MergeTotalLayerNum(s, pd)
      [] k = 10 -> MergePrintError(s, pd)
      [] k = 11 -> MergeGcodeFile(s, pd)
      [] k = 12 -> UpdateIsPrinting(s)
      [] k = 13 -> MergePrintStage(s, pd)
      [] k = 14 -> MergePrintSubStage(s, pd)
      [] k = 15 -> update_status(s, pd)

RECURSIVE RunFrom(_, _, _, _)
RunFrom(k, s, pd, t) ==
    IF k > LastStmt THEN Ok(s)
    ELSE LET r == Stmt(k, s, pd, t)
         IN IF r.raised THEN r ELSE RunFrom(k + 1, r.s, pd, t)

\* The statement that raises, LastStmt + 1 when none does.
RECURSIVE FirstRaiseFrom(_, _, _, _)
FirstRaiseFrom(k, s, pd, t) ==
    IF k > LastStmt THEN k
    ELSE LET r == Stmt(k, s, pd, t)
         IN IF r.raised THEN k ELSE FirstRaiseFrom(k + 1, r.s, pd, t)

FirstRaise(s, pd, t) == FirstRaiseFrom(1, s, pd, t)

\* handle_report_message, lines 159-216.  'print' in payload and
\* 'gcode_state' in print_data raise when the value is no container.
handle_report_message(s, payload, t) ==
    IF ~IsObj(payload) THEN Raise(s)
    ELSE IF "print" \notin DOMAIN payload.obj THEN Ok(s)
    ELSE IF ~IsObj(payload.obj["print"]) THEN Raise(s)
    ELSE RunFrom(1, s, payload.obj["print"].obj, t)

\* An on_message whose /task branch would reach a handler that merges like
\* the report handler.
on_message_TaskMerges(s, msg, t) ==
    IF "bad" \in DOMAIN msg.payload THEN s
    ELSE IF msg.topic \in {"task", "report"}
    THEN handle_report_message(s, msg.payload, t).s
    ELSE s

\* on_message, lines 324-337: every exception is caught and logged.  A
\* payload json.loads rejects is [bad |-> TRUE]; handle_task_message is
\* not defined, so a /task topic raises AttributeError.
on_message(s, msg, t) ==
    IF "bad" \in DOMAIN msg.payload THEN s
    ELSE IF msg.topic = "task" THEN s
    ELSE IF msg.topic = "report" THEN handle_report_message(s, msg.payload, t).s
    ELSE s

\* How on_message ends: "merged" when handle_report_message ran to its
\* end on a print object, "ignored" when nothing was to be done (another
\* topic, line 332; no 'print', line 162), "caught" when an exception went
\* to the except clause of line 335.  No exception leaves on_message.
Handled(s, msg, t) ==
    IF "bad" \in DOMAIN msg.payload THEN "caught"
    ELSE IF msg.topic = "task" THEN "caught"
    ELSE IF msg.topic = "report"
    THEN IF handle_report_message(s, msg.payload, t).raised THEN "caught"
         ELSE IF "print" \in DOMAIN msg.payload.obj THEN "merged"
         ELSE "ignored"
    ELSE "ignored"

---------------------------------------------------------------------------
(* Rendering *)

\* str.upper() on the status strings of the model.
Upper(str) ==
    CASE str = "running" -> "RUNNING"
      [] str = "idle" -> "IDLE"
      [] OTHER -> str

\* name.rsplit('.', 1)[0] on the file names of the model.
Stem(name) ==
    CASE name = "benchy.gcode" -> "benchy"
      [] name = "cube.3mf" -> "cube"
      [] OTHER -> name

RECURSIVE Repeat(_, _)
Repeat(glyph, n) == IF n <= 0 THEN "" ELSE glyph \o Repeat(glyph, n - 1)

\* A bar that rounds to the nearest cell instead of truncating.
create_progress_bar_Rounding(progress) ==
    LET width == 10
        filled == (width * progress + 50) \div 100
        empty == width - filled
    IN Repeat("#", filled) \o Repeat("-", empty)

\* create_progress_bar, lines 222-226, with "#" for the filled glyph and
\* "-" for the empty one: int(width * (progress / 100)) truncates.
create_progress_bar(progress) ==
    LET width == 10
        filled == (width * progress) \div 100
        empty == width - filled
    IN Repeat("#", filled) \o Repeat("-", empty)

\* format_temperature, lines 148-157.
format_temperature(temp) ==
    IF temp = None THEN "???"
    ELSE IF FloatOf(temp).ok THEN ToString(FloatOf(temp).val)
    ELSE "???"

\* An idle-phrase update that draws on every render, whatever the age of
\* the last draw.
update_idle_message_Redrawing(s, t, choice) ==
    [s EXCEPT !.selected_idle_message = Str(choice),
              !.last_idle_message_time = t]

\* update_idle_message, lines 96-102; choice is random.choice's draw.
update_idle_message(s, t, choice) ==
    IF t - s.last_idle_message_time >= idle_message_interval
       \/ s.selected_idle_message = None
    THEN [s EXCEPT !.selected_idle_message = Str(choice),
                   !.last_idle_message_time = t]
    ELSE s

\* lines 251-252
TempsStale(s, t) == (t - s.last_temp_update) > temp_timeout

\* A state line that appends every stored target, a target of 0 too.
TempText_AnyTarget(s, t, temp, target) ==
    IF TempsStale(s, t) THEN "???"
    ELSE IF IsNum(target)
         THEN format_temperature(temp) \o "/" \o ToString(FloatOf(target).val)
         ELSE format_temperature(temp)

\* One temperature of the state line, lines 254-265.
TempText(s, t, temp, target) ==
    IF TempsStale(s, t) THEN "???"
    ELSE IF Truthy(target) /\ FloatOf(target).val > 0
         THEN format_temperature(temp) \o "/" \o ToString(FloatOf(target).val)
         ELSE format_temperature(temp)

\* The parts interpolated into state, lines 267-270.
StateLine(s, t) ==
    [bed_temp |-> TempText(s, t, s.bed_temper, s.bed_target_temper),
     nozzle_temp |-> TempText(s, t, s.nozzle_temper, s.nozzle_target_temper),
     remaining |-> IF s.is_printing /\ s.remaining_time > 0
                   THEN ToString(s.remaining_time) \o "min" ELSE ""]

\* large_text, line 234.
StatusLabel(s) ==
    IF Upper(s.current_status.str) \in DOMAIN status_mapping
    THEN status_mapping[Upper(s.current_status.str)]
    ELSE "Status Unknown"

\* details, lines 237-249, of the object after update_idle_message.
Details(s) ==
    IF s.is_printing
    THEN IF Truthy(s.last_known_file)
         THEN Stem(s.last_known_file.str) \o " ["
              \o create_progress_bar(s.current_progress) \o "] "
              \o ToString(s.current_progress) \o ".0%"
         ELSE "Print in Progress"
    ELSE IF s.print_error # 0 THEN "Error: " \o ToString(s.print_error)
    ELSE IF Truthy(s.selected_idle_message) THEN s.selected_idle_message.str
    ELSE "Printer Ready"

NoPayload == [details |-> "", state |-> [bed_temp |-> "", nozzle_temp |-> "",
                                          remaining |-> ""],
              large_text |-> "", time |-> 0]

\* line 239: .rsplit() raises on a file name that is no string.
FormatRaises(s) ==
    s.is_printing /\ Truthy(s.last_known_file) /\ ~IsStr(s.last_known_file)

\* A throttle that holds no tick back: with it, ticks two seconds apart
\* would each emit.
Throttled_Never(s, t) == FALSE

\* lines 229-231
Throttled(s, t) == t - s.last_update_time < update_interval

\* An except clause that stamps the failed attempt: with it, a failed
\* render would be throttled like a successful one.
Caught_Stamping(s, t, kind) ==
    [s |-> [s EXCEPT !.last_update_time = t], outcome |-> kind,
     payload |-> NoPayload]

\* A render whose exception is not caught in update_presence and goes on
\* to run().
Caught_Raising(s, t, kind) ==
    [s |-> s, outcome |-> "raised", payload |-> NoPayload]

\* lines 283-284: the except clause logs; nothing is written at time t.
Caught(s, t, kind) == [s |-> s, outcome |-> kind, payload |-> NoPayload]

\* update_presence, lines 228-284, at time t; rpc_ok says whether
\* RPC.update returns, choice is the idle phrase random.choice would draw.
\* .upper() raises on a status that is no string (line 234).
update_presence(s, t, rpc_ok, choice) ==
    IF Throttled(s, t)
    THEN [s |-> s, outcome |-> "throttled", payload |-> NoPayload]
    ELSE IF ~IsStr(s.current_status) THEN Caught(s, t, "format_failed")
    ELSE LET s1 == IF s.is_printing THEN s
                   ELSE update_idle_message(s, t, choice)
         IN IF FormatRaises(s1) THEN Caught(s1, t, "format_failed")
            ELSE IF ~rpc_ok THEN Caught(s1, t, "display_failed")
            ELSE [s |-> [s1 EXCEPT !.last_update_time = t],
                  outcome |-> "emitted",
                  payload |-> [details |-> Details(s1),
                               state |-> StateLine(s1, t),
                               large_text |-> StatusLabel(s1),
                               time |-> t]]

---------------------------------------------------------------------------
(* The fields the MQTT callback writes and the renderer reads. *)

TelemetryFields ==
    {"gcode_state", "current_status", "bed_temper", "bed_target_temper",
     "nozzle_temper", "nozzle_target_temper", "current_progress",
     "remaining_time", "current_layer", "total_layer_num", "print_error",
     "last_known_file", "is_printing", "print_stage", "print_sub_stage",
     "last_temp_update"}

Telemetry(s) == [f \in TelemetryFields |-> s[f]]

---------------------------------------------------------------------------
(* Messages *)

Report(pd) == [topic |-> "report", payload |-> Obj("print" :> Obj(pd))]

\* Whether msg reaches the merge: a /report message whose payload is an
\* object with a 'print' object (lines 326-333, 161-164).
HasPrint(msg) ==
    /\ msg.topic = "report"
    /\ "obj" \in DOMAIN msg.payload
    /\ "print" \in DOMAIN msg.payload.obj
    /\ IsObj(msg.payload.obj["print"])

PrintOf(msg) == msg.payload.obj["print"].obj

\* The key/value pairs the reports of the model are made of.
Pairs ==
    {<<"gcode_state", Str("RUNNING")>>, <<"gcode_state", Str("IDLE")>>,
     <<"gcode_state", Str("SLICING")>>, <<"gcode_state", None>>,
     <<"bed_temper", Num(60)>>, <<"bed_temper", Str("abc")>>,
     <<"mc_percent", Num(45)>>,
     <<"print_error", Num(5)>>, <<"print_error", Num(0)>>,
     <<"gcode_file", Str("benchy.gcode")>>, <<"gcode_file", Str("")>>,
     <<"mc_print_stage", Str("1")>>,
     <<"mc_print_sub_stage", Num(2)>>,
     <<"ams_status", Num(1)>>,
     <<"upload", Obj([status |-> Str("uploading")])>>,
     <<"online", Obj([status |-> Bool(FALSE)])>>}

\* The report of spec.md section 8.
HomingReport ==
    [gcode_state |-> Str("RUNNING"), mc_print_stage |-> Str("1"),
     mc_print_sub_stage |-> Num(2), bed_temper |-> Num(60),
     nozzle_temper |-> Num(210)]

\* Reports of several fields: one with an unparseable number between two
\* well-formed fields, and error code 5 beside lower-precedence signals.
MixedReports ==
    {HomingReport,
     [gcode_state |-> Str("RUNNING"), bed_temper |-> Str("abc"),
      print_error |-> Num(5)],
     [print_error |-> Num(5), ams_status |-> Num(1),
      mc_print_stage |-> Str("1"), mc_print_sub_stage |-> Num(2)],
     [print_error |-> Num(5), upload |-> Obj([status |-> Str("uploading")])]}

OtherMessages ==
    {[topic |-> "report", payload |-> [bad |-> TRUE]],
     [topic |-> "report", payload |-> Obj("info" :> Str("x"))],
     [topic |-> "report", payload |-> Obj("print" :> Num(5))],
     [topic |-> "task", payload |-> Obj("print" :> Obj(HomingReport))],
     [topic |-> "other", payload |-> Obj("print" :> Obj(HomingReport))]}

\* Print objects of one or two of the pairs, one value per key.
PrintObjects == {(p[1] :> p[2]) @@ (q[1] :> q[2]) : p, q \in Pairs}

MergeMessages ==
    {Report(pd) : pd \in PrintObjects \cup MixedReports} \cup OtherMessages

\* The reports the throttle is checked with: one leaves a status that is
\* no string.
TickMessages ==
    {Report(pd) : pd \in
        {[gcode_state |-> Str("RUNNING")], [gcode_state |-> Str("IDLE")],
         [gcode_state |-> None]}}

\* The reports the staleness of the temperatures is checked with.
TempMessages ==
    {Report(pd) : pd \in
        {[bed_temper |-> Num(60)], [nozzle_temper |-> Num(210)]}}

\* The reports the idle phrase is checked with.
IdleMessages ==
    {Report(pd) : pd \in
        {[gcode_state |-> Str("RUNNING")], [gcode_state |-> Str("IDLE")],
         [print_error |-> Num(5)]}}

---------------------------------------------------------------------------
(* Bounds and start *)

\* time.time() when the object is built (line 21); any value of at least
\* idle_message_interval stands for the epoch seconds of the program.
StartTime == 1000

MaxTime == 1035
TempMaxTime == 1025
IdleMaxTime == 2200
ThreadMaxTime == 1015
MaxPercent == 100
RunMaxTime == 1020
BlockMaxTime == 1010
FileMaxTime == 1015
TargetMaxTime == 1015

\* The main thread is running: no display call has hung and the finally
\* block of run() (lines 371-376) has attempted nothing.
NotEnded == [blocked_at |-> 0, rpc_close |-> "no", mqtt_stop |-> "no"]

Init ==
    /\ self = InitSelf
    /\ now = StartTime
    /\ run_pc = "init"
    /\ sleep_until = StartTime
    /\ tick = "none"
    /\ presence = NoPayload
    /\ emitted = 0
    /\ mqtt_pc = 0
    /\ mqtt_pd = << >>
    /\ mqtt_time = 0
    /\ stable = Telemetry(InitSelf)
    /\ temp_read_at = [bed |-> 0, nozzle |-> 0]
    /\ ended = NotEnded
    /\ handled = "none"

---------------------------------------------------------------------------
(* Actions *)

\* connect_to_printer, lines 309-322, as run() calls it (line 356): the
\* client is assigned before connect(); a failed connect is re-raised and
\* run() goes to its finally block.
ConnectToPrinter ==
    /\ run_pc = "init"
    /\ \E ok \in BOOLEAN :
          IF ok
          THEN /\ self' = [self EXCEPT !.mqtt_client = "connected"]
               /\ run_pc' = "discord"
          ELSE /\ self' = [self EXCEPT !.mqtt_client = "unconnected"]
               /\ run_pc' = "finally"
    /\ UNCHANGED <<now, sleep_until, tick, presence, emitted,
                   mqtt_pc, mqtt_pd, mqtt_time, stable, temp_read_at, ended, handled>>

\* initialize_discord, lines 339-351: self.RPC is assigned before
\* connect(), so it is set even when connect() failed on every pipe, and
\* is None only when Presence() itself raised on every pipe.
InitializeDiscord ==
    /\ run_pc = "discord"
    /\ \E rpc \in {"connected", "unconnected", "None"} :
          /\ self' = [self EXCEPT !.RPC = rpc]
          /\ run_pc' = IF rpc = "None" THEN "finally" ELSE "check"
    /\ UNCHANGED <<now, sleep_until, tick, presence, emitted,
                   mqtt_pc, mqtt_pd, mqtt_time, stable, temp_read_at, ended, handled>>

\* check_initial_state, lines 286-307: the sequence id is taken before the
\* publish; a failed publish is caught and skips the sleep.
CheckInitialState ==
    /\ run_pc = "check"
    /\ \E published \in BOOLEAN :
          now' = IF published THEN now + sleep_seconds ELSE now
    /\ self' = [self EXCEPT !.sequence_id = @ + 1]
    /\ run_pc' = "loop"
    /\ sleep_until' = now'
    /\ UNCHANGED <<tick, presence, emitted, mqtt_pc, mqtt_pd, mqtt_time,
                   stable, temp_read_at, ended, handled>>

\* A client whose network loop would be driven from the main thread
\* (loop() inside the loop of run() instead of loop_start()): it delivers
\* nothing while the main thread is inside a display call.
Subscribed_OnMainThread ==
    self.mqtt_client = "connected" /\ run_pc \notin {"done", "blocked"}

\* The MQTT thread is running: loop_start() was called and loop_stop() not.
Subscribed == self.mqtt_client = "connected" /\ run_pc # "done"

\* Whether statement k of the handler is reached and run without raising.
Runs(k, s, pd, t) == k < FirstRaise(s, pd, t)

\* temp_read_at after on_message(msg) at time t: a temperature is read
\* when its statement (2 for the bed, 4 for the nozzle) assigns it.
ReadAt(r, s, msg, t) ==
    IF ~HasPrint(msg) THEN r
    ELSE LET pd == PrintOf(msg)
         IN [bed |-> IF "bed_temper" \in DOMAIN pd /\ Runs(2, s, pd, t)
                     THEN t ELSE r.bed,
             nozzle |-> IF "nozzle_temper" \in DOMAIN pd /\ Runs(4, s, pd, t)
                        THEN t ELSE r.nozzle]

\* on_message run as a whole, lines 324-337.
OnMessage(msg) ==
    /\ Subscribed
    /\ mqtt_pc = 0
    /\ self' = on_message(self, msg, now)
    /\ stable' = Telemetry(self')
    /\ temp_read_at' = ReadAt(temp_read_at, self, msg, now)
    /\ handled' = Handled(self, msg, now)
    /\ UNCHANGED <<now, run_pc, sleep_until, tick, presence, emitted,
                   mqtt_pc, mqtt_pd, mqtt_time, ended>>

\* One iteration of the loop of run(), lines 363-365: update_presence,
\* then time.sleep(2).  An exception update_presence lets out would be
\* caught at line 369 and end the loop.
UpdatePresence ==
    /\ run_pc = "loop"
    /\ now >= sleep_until
    /\ \E rpc_ok \in (IF self.RPC = "connected" THEN BOOLEAN ELSE {FALSE}),
          choice \in idle_messages :
          LET r == update_presence(self, now, rpc_ok, choice)
          IN /\ self' = r.s
             /\ tick' = r.outcome
             /\ presence' = IF r.outcome = "emitted" THEN r.payload
                            ELSE presence
             /\ emitted' = IF r.outcome = "emitted" THEN emitted + 1
                           ELSE emitted
             /\ run_pc' = IF r.outcome = "raised" THEN "finally" ELSE run_pc
    /\ sleep_until' = now + sleep_seconds
    /\ UNCHANGED <<now, mqtt_pc, mqtt_pd, mqtt_time, stable,
                   temp_read_at, ended, handled>>

\* The clock advances by d, up to limit.
Elapse(d, limit) ==
    /\ now + d <= limit
    /\ now' = now + d
    /\ UNCHANGED <<self, run_pc, sleep_until, tick, presence, emitted,
                   mqtt_pc, mqtt_pd, mqtt_time, stable, temp_read_at, ended, handled>>

\* on_message entered by the MQTT thread with a report that reaches the
\* merge: lines 326-333 and 161-165.
Deliver(msg) ==
    /\ Subscribed
    /\ mqtt_pc = 0
    /\ HasPrint(msg)
    /\ mqtt_pc' = 1
    /\ mqtt_pd' = PrintOf(msg)
    /\ mqtt_time' = now
    /\ UNCHANGED <<self, now, run_pc, sleep_until, tick, presence, emitted,
                   stable, temp_read_at, ended, handled>>

\* The MQTT thread runs the statement of handle_report_message it is at;
\* the main thread may run between any two of them, as no lock is taken.
HandlerStep ==
    /\ mqtt_pc > 0
    /\ LET r == Stmt(mqtt_pc, self, mqtt_pd, mqtt_time)
           done == r.raised \/ mqtt_pc = LastStmt
       IN /\ self' = r.s
          /\ mqtt_pc' = IF done THEN 0 ELSE mqtt_pc + 1
          /\ mqtt_pd' = IF done THEN << >> ELSE mqtt_pd
          /\ mqtt_time' = IF done THEN 0 ELSE mqtt_time
          /\ stable' = IF done THEN Telemetry(r.s) ELSE stable
          /\ handled' = IF r.raised THEN "caught"
                        ELSE IF done THEN "merged" ELSE handled
          /\ temp_read_at' =
                IF r.raised THEN temp_read_at
                ELSE IF mqtt_pc = 2 /\ "bed_temper" \in DOMAIN mqtt_pd
                THEN [temp_read_at EXCEPT !.bed = mqtt_time]
                ELSE IF mqtt_pc = 4 /\ "nozzle_temper" \in DOMAIN mqtt_pd
                THEN [temp_read_at EXCEPT !.nozzle = mqtt_time]
                ELSE temp_read_at
    /\ UNCHANGED <<now, run_pc, sleep_until, tick, presence, emitted, ended>>

\* A firing tick whose render reaches RPC.update (line 273) and whose call
\* never returns: the main thread stays in update_presence.
DisplayBlocks ==
    /\ run_pc = "loop"
    /\ now >= sleep_until
    /\ self.RPC = "connected"
    /\ ~Throttled(self, now)
    /\ IsStr(self.current_status)
    /\ \E choice \in idle_messages :
          LET s1 == IF self.is_printing THEN self
                    ELSE update_idle_message(self, now, choice)
          IN /\ ~FormatRaises(s1)
             /\ self' = s1
    /\ run_pc' = "blocked"
    /\ tick' = "blocked"
    /\ ended' = [ended EXCEPT !.blocked_at = now]
    /\ UNCHANGED <<now, sleep_until, presence, emitted, mqtt_pc, mqtt_pd,
                   mqtt_time, stable, temp_read_at, handled>>

\* KeyboardInterrupt raised in the main thread inside the try block of
\* run(), lines 367-368.
Interrupt ==
    /\ run_pc \in {"discord", "check", "loop"}
    /\ run_pc' = "finally"
    /\ UNCHANGED <<self, now, sleep_until, tick, presence, emitted,
                   mqtt_pc, mqtt_pd, mqtt_time, stable, temp_read_at, ended,
                   handled>>

\* The finally block of run(), lines 371-376: RPC.close() when self.RPC is
\* set, then loop_stop() and disconnect() when self.mqtt_client is set.
\* Nothing catches inside the block, so an exception of RPC.close() leaves
\* run() before line 374.
Teardown ==
    /\ run_pc = "finally"
    /\ \E close_ok, stop_ok \in BOOLEAN :
          LET rpc == IF self.RPC = "None" THEN "skipped"
                     ELSE IF close_ok THEN "closed" ELSE "raised"
              mqtt == IF rpc = "raised" THEN "no"
                      ELSE IF self.mqtt_client = "None" THEN "skipped"
                      ELSE IF stop_ok THEN "stopped" ELSE "raised"
          IN /\ ended' = [ended EXCEPT !.rpc_close = rpc, !.mqtt_stop = mqtt]
             /\ self' = [self EXCEPT
                           !.RPC = IF rpc = "closed" THEN "closed" ELSE @,
                           !.mqtt_client = IF mqtt = "stopped" THEN "stopped"
                                           ELSE @]
    /\ run_pc' = "done"
    /\ UNCHANGED <<now, sleep_until, tick, presence, emitted,
                   mqtt_pc, mqtt_pd, mqtt_time, stable, temp_read_at, handled>>

Startup == ConnectToPrinter \/ InitializeDiscord \/ CheckInitialState

\* The program with the reports that decide the throttle.
Next ==
    \/ Startup
    \/ \E msg \in TickMessages : OnMessage(msg)
    \/ UpdatePresence
    \/ \E d \in {5} : Elapse(d, MaxTime)

Spec == Init /\ [][Next]_vars

\* The MQTT thread from connect_to_printer on, with every report of
\* MergeMessages.
MergeNext ==
    \/ ConnectToPrinter
    \/ \E msg \in MergeMessages : OnMessage(msg)

MergeSpec == Init /\ [][MergeNext]_vars

\* The program with temperature reports.
TempNext ==
    \/ Startup
    \/ \E msg \in TempMessages : OnMessage(msg)
    \/ UpdatePresence
    \/ \E d \in {5} : Elapse(d, TempMaxTime)

TempSpec == Init /\ [][TempNext]_vars

\* The program over more than one idle_message_interval.
IdleNext ==
    \/ Startup
    \/ \E msg \in IdleMessages : OnMessage(msg)
    \/ UpdatePresence
    \/ \E d \in {200} : Elapse(d, IdleMaxTime)

IdleSpec == Init /\ [][IdleNext]_vars

\* The reports the two threads are interleaved with.
ThreadMessages ==
    {Report(pd) : pd \in
        {[gcode_state |-> Str("RUNNING")], [gcode_state |-> Str("IDLE")]}}

\* The program with the MQTT thread and the main thread interleaved
\* statement by statement.
ThreadNext ==
    \/ Startup
    \/ \E msg \in ThreadMessages : Deliver(msg)
    \/ HandlerStep
    \/ UpdatePresence
    \/ \E d \in {5} : Elapse(d, ThreadMaxTime)

ThreadSpec == Init /\ [][ThreadNext]_vars

\* Reports and other messages that make a handler or a render raise: an
\* undecodable payload, missing structure, other topics, an unparseable
\* number, a gcode_state of null and a file name that is no string.
RunMessages ==
    OtherMessages \cup
    {Report(pd) : pd \in
        {[gcode_state |-> Str("RUNNING"), bed_temper |-> Str("abc"),
          print_error |-> Num(5)],
         [gcode_state |-> None],
         [gcode_state |-> Str("RUNNING"), gcode_file |-> Num(5)]}}

\* run() from its first line to the end of its finally block.
RunNext ==
    \/ Startup
    \/ \E msg \in RunMessages : OnMessage(msg)
    \/ UpdatePresence
    \/ Interrupt
    \/ Teardown
    \/ \E d \in {5} : Elapse(d, RunMaxTime)

RunSpec == Init /\ [][RunNext]_vars

\* The reports delivered around a display call that hangs.
BlockMessages ==
    {Report(pd) : pd \in
        {[bed_temper |-> Num(60)], [gcode_state |-> Str("RUNNING")]}}

\* The two threads with a display call that may hang.
BlockNext ==
    \/ Startup
    \/ \E msg \in BlockMessages : Deliver(msg)
    \/ HandlerStep
    \/ UpdatePresence
    \/ DisplayBlocks
    \/ \E d \in {5} : Elapse(d, BlockMaxTime)

BlockSpec == Init /\ [][BlockNext]_vars

\* The reports the file name is checked with: two names, an empty name
\* beside the only bed temperature, and a report without a name.
FileMessages ==
    {Report(pd) : pd \in
        {[gcode_state |-> Str("RUNNING"), gcode_file |-> Str("benchy.gcode")],
         [gcode_file |-> Str(""), bed_temper |-> Num(60)],
         [gcode_file |-> Str("cube.3mf")],
         [mc_percent |-> Num(45)]}}

\* The program with reports of file names.
FileNext ==
    \/ Startup
    \/ \E msg \in FileMessages : OnMessage(msg)
    \/ UpdatePresence
    \/ \E d \in {5} : Elapse(d, FileMaxTime)

FileSpec == Init /\ [][FileNext]_vars

\* The reports the target suffix is checked with: both actual
\* temperatures, a bed target, a bed target of 0 and a nozzle target.
TargetMessages ==
    {Report(pd) : pd \in
        {[bed_temper |-> Num(60), nozzle_temper |-> Num(210)],
         [bed_target_temper |-> Num(65)],
         [bed_target_temper |-> Num(0)],
         [nozzle_target_temper |-> Num(220)]}}

\* The program with reports of temperatures and targets.
TargetNext ==
    \/ Startup
    \/ \E msg \in TargetMessages : OnMessage(msg)
    \/ UpdatePresence
    \/ \E d \in {5} : Elapse(d, TargetMaxTime)

TargetSpec == Init /\ [][TargetNext]_vars

\* The object once run() has reached its loop with both connections made.
LoopSelf ==
    [InitSelf EXCEPT !.RPC = "connected", !.mqtt_client = "connected",
                     !.sequence_id = 1]

\* A report of a print of benchy.gcode at percent p.
BarReport(p) ==
    Report([gcode_state |-> Str("RUNNING"),
            gcode_file |-> Str("benchy.gcode"), mc_percent |-> Num(p)])

\* The loop entered with a print at any percent of 0..MaxPercent merged.
BarInit ==
    /\ \E p \in 0..MaxPercent :
          self = on_message(LoopSelf, BarReport(p), StartTime)
    /\ now = StartTime
    /\ run_pc = "loop"
    /\ sleep_until = StartTime
    /\ tick = "none"
    /\ presence = NoPayload
    /\ emitted = 0
    /\ mqtt_pc = 0
    /\ mqtt_pd = << >>
    /\ mqtt_time = 0
    /\ stable = Telemetry(self)
    /\ temp_read_at = [bed |-> 0, nozzle |-> 0]
    /\ ended = NotEnded
    /\ handled = "merged"

\* The first render of that print.
BarNext == UpdatePresence

BarSpec == BarInit /\ [][BarNext]_vars

---------------------------------------------------------------------------
(* Claims about the merge and the resolver, checked under MergeSpec *)

\* The resolver of the claims over the fields the object stores: the
\* upload status, the error code, the AMS status, gcode_state and the two
\* stage codes (no field stores the online flag).
ResolveStored(s) ==
    IF s.upload_status # "idle" THEN Str("UPLOADING")
    ELSE IF s.print_error # 0 THEN Str("ERROR_" \o ToString(s.print_error))
    ELSE IF s.ams_status \in {1, 2} THEN Str("CHANGE_FILAMENT")
    ELSE IF s.gcode_state = Str("RUNNING") /\ s.print_stage = Str("1")
    THEN Str(stage_mapping(s.print_sub_stage))
    ELSE s.gcode_state

\* C1: after every report, current_status is the resolver's label of the
\* stored fields alone, so equal stored fields give equal current_status.
C1_StatusFromStoredFields == self.current_status = ResolveStored(self)

\* The label of the highest-precedence resolver condition that holds for
\* object s after the merge of print object pd.
PrecedenceLabel(s, pd) ==
    IF "upload" \in DOMAIN pd /\ IsObj(pd.upload)
       /\ DictGet(pd.upload.obj, "status", None) # Str("idle")
    THEN Str("UPLOADING")
    ELSE IF s.print_error # 0 THEN Str("ERROR_" \o ToString(s.print_error))
    ELSE IF "ams_status" \in DOMAIN pd /\ IntOf(pd.ams_status).ok
            /\ IntOf(pd.ams_status).val \in {1, 2}
    THEN Str("CHANGE_FILAMENT")
    ELSE IF s.gcode_state = Str("RUNNING") /\ s.print_stage = Str("1")
    THEN Str(stage_mapping(s.print_sub_stage))
    ELSE IF "online" \in DOMAIN pd /\ IsObj(pd.online)
            /\ ~Truthy(DictGet(pd.online.obj, "status", Bool(TRUE)))
    THEN Str("OFFLINE")
    ELSE s.gcode_state

\* C2: for every state and every update, current_status after the update
\* is the label of the highest-precedence condition that then holds.
C2_HighestPrecedenceWins ==
    [][\A msg \in MergeMessages :
          OnMessage(msg) /\ HasPrint(msg) =>
              self'.current_status = PrecedenceLabel(self', PrintOf(msg))]_vars

\* The report keys the handler merges and the field each is stored in.
FieldOf ==
    [gcode_state |-> "gcode_state", bed_temper |-> "bed_temper",
     bed_target_temper |-> "bed_target_temper",
     nozzle_temper |-> "nozzle_temper",
     nozzle_target_temper |-> "nozzle_target_temper",
     mc_percent |-> "current_progress",
     mc_remaining_time |-> "remaining_time", layer_num |-> "current_layer",
     total_layer_num |-> "total_layer_num", print_error |-> "print_error",
     gcode_file |-> "last_known_file", mc_print_stage |-> "print_stage",
     mc_print_sub_stage |-> "print_sub_stage"]

TemperatureKeys == {"bed_temper", "bed_target_temper", "nozzle_temper",
                    "nozzle_target_temper"}
NumericKeys == TemperatureKeys \cup {"mc_percent", "mc_remaining_time",
                                     "layer_num", "total_layer_num",
                                     "print_error"}

\* A value the merge is to accept for key: a number that parses, a file
\* name that is not empty, anything for the other keys.
WellFormed(key, v) ==
    IF key \in NumericKeys THEN FloatOf(v).ok
    ELSE IF key = "gcode_file" THEN Truthy(v)
    ELSE TRUE

\* What the field of key holds once v is stored.
StoredValue(key, v) ==
    IF key \in TemperatureKeys THEN Num(FloatOf(v).val)
    ELSE IF key \in NumericKeys THEN FloatOf(v).val
    ELSE v

MalformedKeys(pd) ==
    {key \in DOMAIN pd \cap NumericKeys : ~FloatOf(pd[key]).ok}

\* C3: every field whose key is absent from the update keeps its value and
\* every field present with a well-formed value holds exactly that value.
C3_MergeIsFieldLocal ==
    [][\A msg \in MergeMessages :
          OnMessage(msg) /\ HasPrint(msg) =>
              \A key \in DOMAIN FieldOf :
                 /\ key \notin DOMAIN PrintOf(msg) =>
                       self'[FieldOf[key]] = self[FieldOf[key]]
                 /\ key \in DOMAIN PrintOf(msg)
                    /\ WellFormed(key, PrintOf(msg)[key]) =>
                       self'[FieldOf[key]] =
                           StoredValue(key, PrintOf(msg)[key])]_vars

\* C4: an update with a number that fails to parse changes nothing of that
\* field, applies its other well-formed fields, updates is_printing and
\* runs the resolver.
C4_BadNumberRejectsOnlyItsField ==
    [][\A msg \in MergeMessages :
          OnMessage(msg) /\ HasPrint(msg)
          /\ MalformedKeys(PrintOf(msg)) # {} =>
              /\ \A key \in MalformedKeys(PrintOf(msg)) :
                    self'[FieldOf[key]] = self[FieldOf[key]]
              /\ \A key \in (DOMAIN PrintOf(msg) \cap DOMAIN FieldOf)
                               \ MalformedKeys(PrintOf(msg)) :
                    WellFormed(key, PrintOf(msg)[key]) =>
                       self'[FieldOf[key]] =
                           StoredValue(key, PrintOf(msg)[key])
              /\ self'.is_printing = UpdateIsPrinting(self').s.is_printing
              /\ self'.current_status =
                    update_status(self', PrintOf(msg)).s.current_status]_vars

PrintingStates == {Str("RUNNING"), Str("PAUSE"), Str("PREPARE")}
IdleStates == {Str("IDLE"), Str("FAILED"), Str("FINISH")}

\* C5: after any sequence of reports is_printing is true when gcode_state
\* is RUNNING, PAUSE or PREPARE and false when it is IDLE, FAILED or
\* FINISH; a report that sets another gcode_state leaves it unchanged.
C5_IsPrintingFollowsGcodeState ==
    [][/\ self'.gcode_state \in PrintingStates => self'.is_printing
       /\ self'.gcode_state \in IdleStates => ~self'.is_printing
       /\ self'.gcode_state \notin PrintingStates \cup IdleStates =>
             self'.is_printing = self.is_printing]_vars

\* The update carries an upload that is not idle, the one signal that
\* outranks an error code.
UploadActive(pd) ==
    "upload" \in DOMAIN pd
    /\ (IsObj(pd.upload) => DictGet(pd.upload.obj, "status", None) # Str("idle"))

\* C11: an update that carries print_error = 5 leaves current_status at
\* ERROR_5, whatever AMS status, print stage, sub-stage or other field it
\* carries beside it.
C11_ErrorFiveOverrides ==
    [][\A msg \in MergeMessages :
          (/\ HasPrint(msg)
           /\ "print_error" \in DOMAIN PrintOf(msg)
           /\ PrintOf(msg).print_error = Num(5)
           /\ ~UploadActive(PrintOf(msg))
           /\ OnMessage(msg)) =>
              self'.current_status = Str("ERROR_5")]_vars

\* The update carries an AMS status of filament change.
FilamentChange(pd) ==
    "ams_status" \in DOMAIN pd /\ pd.ams_status \in {Num(1), Num(2)}

\* The status the preparation rule gives sub-stage code sub.
SubStageStatus(sub) ==
    IF sub = Num(1) THEN "HEAT"
    ELSE IF sub = Num(2) THEN "HOME"
    ELSE IF sub = Num(3) THEN "CLEAN"
    ELSE IF sub = Num(4) THEN "CALIBRATE"
    ELSE IF sub = Num(5) THEN "FILAMENT"
    ELSE "PREPARE"

\* C12: whenever after a merge gcode_state is RUNNING, the print stage is
\* '1' and no upload, error or filament-change rule applies, current_status
\* is the status of the stored print sub-stage, PREPARE for a code outside
\* 1..5.
C12_PreparationSubStage ==
    [][\A msg \in MergeMessages :
          (/\ HasPrint(msg)
           /\ OnMessage(msg)
           /\ self'.gcode_state = Str("RUNNING")
           /\ self'.print_stage = Str("1")
           /\ self'.print_error = 0
           /\ ~UploadActive(PrintOf(msg))
           /\ ~FilamentChange(PrintOf(msg))) =>
              self'.current_status =
                  Str(SubStageStatus(self'.print_sub_stage))]_vars

\* A message the handler has nothing to merge from: not on the report
\* topic, or with a payload that holds no 'print' object.
NothingToMerge(msg) == ~HasPrint(msg)

---------------------------------------------------------------------------
(* Claims about the tick loop, checked under Spec: every step that is a
   tick of update_presence is compared with the state before it. *)

Failed == {"format_failed", "display_failed"}

\* C6 as stated: no two payloads less than 15 seconds apart, a throttled
\* tick changes nothing, and every tick at least 15 seconds after the
\* previous successful render emits exactly one payload.
C6_EveryDueTickEmits ==
    [][UpdatePresence =>
          /\ (tick' = "emitted" => now - presence.time >= update_interval)
          /\ (now - presence.time < update_interval =>
                  tick' = "throttled" /\ self' = self /\ presence' = presence
                  /\ emitted' = emitted)
          /\ (now - presence.time >= update_interval =>
                  tick' = "emitted" /\ presence'.time = now
                  /\ emitted' = emitted + 1)]_vars

\* C6 amended: no two payloads less than 15 seconds apart, a throttled
\* tick changes nothing, and every tick at least 15 seconds after the
\* previous successful render attempts a render, which emits exactly one
\* payload unless its formatting or its display call raises, and then
\* emits none and leaves the throttle time alone.
C6_Throttle ==
    [][UpdatePresence =>
          /\ (tick' = "emitted" => now - presence.time >= update_interval)
          /\ (now - presence.time < update_interval =>
                  tick' = "throttled" /\ self' = self /\ presence' = presence
                  /\ emitted' = emitted)
          /\ (now - presence.time >= update_interval =>
                  /\ tick' \in Failed \cup {"emitted"}
                  /\ tick' = "emitted" =>
                        /\ presence'.time = now
                        /\ self'.last_update_time = now
                        /\ emitted' = emitted + 1
                  /\ tick' \in Failed =>
                        /\ presence' = presence
                        /\ self'.last_update_time = self.last_update_time
                        /\ emitted' = emitted)]_vars

\* A second payload has been emitted and the tick after it was throttled.
C6_Witness ==
    /\ emitted >= 2
    /\ tick = "throttled"
    /\ presence.time >= StartTime + update_interval
    /\ now - presence.time < update_interval

---------------------------------------------------------------------------
(* Claim about temperature staleness, checked under TempSpec. *)

\* The text of a temperature that is shown as its value, with or without
\* its target.
ShownAsValue(text, temp, target) ==
    \/ text = format_temperature(temp)
    \/ /\ IsNum(target)
       /\ text = format_temperature(temp) \o "/" \o ToString(target.num)

\* C8: in every emitted payload, a temperature whose own last reading is
\* more than 5 seconds old is shown as "???", whatever the age of the other
\* one, and a temperature read within 5 seconds is shown as its value.
C8_StalenessPerTemperature ==
    [][UpdatePresence /\ tick' = "emitted" =>
          /\ (now - temp_read_at.bed > temp_timeout =>
                  presence'.state.bed_temp = "???")
          /\ (now - temp_read_at.nozzle > temp_timeout =>
                  presence'.state.nozzle_temp = "???")
          /\ (now - temp_read_at.bed <= temp_timeout =>
                  ShownAsValue(presence'.state.bed_temp, self.bed_temper,
                               self.bed_target_temper))
          /\ (now - temp_read_at.nozzle <= temp_timeout =>
                  ShownAsValue(presence'.state.nozzle_temp,
                               self.nozzle_temper,
                               self.nozzle_target_temper))]_vars

---------------------------------------------------------------------------
(* Claim about the idle phrase, checked under IdleSpec. *)

\* An idle render that gets as far as update_idle_message (line 245).
IdleRender ==
    UpdatePresence /\ ~self.is_printing /\ tick' \in {"emitted", "display_failed"}

\* C9: a selected idle phrase is one of the fixed phrases; no step changes
\* the phrase or its selection time while less than 600 seconds have passed
\* since the selection; an idle render 600 seconds or more after it draws a
\* phrase and sets the selection time to the time of the render; and an
\* emitted idle payload without an error code shows the selected phrase.
C9_IdleMessageStable ==
    [][/\ self'.selected_idle_message # None =>
             /\ IsStr(self'.selected_idle_message)
             /\ self'.selected_idle_message.str \in idle_messages
       /\ (/\ self.selected_idle_message # None
           /\ now - self.last_idle_message_time < idle_message_interval) =>
             /\ self'.selected_idle_message = self.selected_idle_message
             /\ self'.last_idle_message_time = self.last_idle_message_time
       /\ (/\ IdleRender
           /\ now - self.last_idle_message_time >= idle_message_interval) =>
             /\ self'.last_idle_message_time = now
             /\ self'.selected_idle_message # None
       /\ (IdleRender /\ tick' = "emitted" /\ self.print_error = 0) =>
             presence'.details = self'.selected_idle_message.str]_vars

\* A phrase drawn 600 seconds or more after the first draw has been shown
\* by a later render that did not draw again.
C9_Witness ==
    /\ self.last_idle_message_time >= StartTime + idle_message_interval
    /\ self.selected_idle_message # None
    /\ tick = "emitted"
    /\ presence.time > self.last_idle_message_time
    /\ presence.time - self.last_idle_message_time < idle_message_interval
    /\ presence.details = self.selected_idle_message.str

---------------------------------------------------------------------------
(* Claim about the two threads, checked under ThreadSpec. *)

\* C10: every render reads the telemetry as it was left by the last whole
\* merge-and-resolve, never a state the handler is half way through.
C10_RendersSeeWholeMerges ==
    [][UpdatePresence /\ tick' # "throttled" =>
          mqtt_pc = 0 /\ Telemetry(self) = stable]_vars

---------------------------------------------------------------------------
(* Claim about the progress bar, checked under BarSpec. *)

\* The bars of 0 to 10 filled cells, written out.
BarCells ==
    <<"----------", "#---------", "##--------", "###-------", "####------",
      "#####-----", "######----", "#######---", "########--", "#########-",
      "##########">>

\* C13: for every percent p of 0..100 the details of a print show a bar of
\* exactly 10 cells, floor(10*p/100) of them filled and before the empty
\* ones: all empty at 0, all filled at 100, 4 filled and 6 empty at 45.
C13_ProgressBar ==
    [][(/\ UpdatePresence
        /\ tick' = "emitted"
        /\ self.current_progress \in 0..100) =>
           /\ \A b \in 1..11 : Len(BarCells[b]) = 10
           /\ presence'.details =
                 "benchy [" \o BarCells[((10 * self.current_progress) \div 100) + 1]
                 \o "] " \o ToString(self.current_progress) \o ".0%"
           /\ create_progress_bar(0) = "----------"
           /\ create_progress_bar(100) = "##########"
           /\ create_progress_bar(45) = "####------"]_vars

\* The print at 45 percent has been rendered.
C13_Witness ==
    /\ tick = "emitted"
    /\ self.current_progress = 45
    /\ presence.details = "benchy [####------] 45.0%"

---------------------------------------------------------------------------
(* Claims about the life of run(), checked under RunSpec. *)

\* C14: once run() has ended, the display session close and the
\* subscription disconnect have each been attempted, whether or not the
\* other one raised.
C14_BothReleasesAttempted ==
    run_pc = "done" =>
        /\ self.RPC # "None" => ended.rpc_close \in {"closed", "raised"}
        /\ self.mqtt_client # "None" => ended.mqtt_stop \in {"stopped", "raised"}

\* C15: the tick loop is entered only with a display client that
\* connected on one of the pipes; when the connection failed on every pipe
\* run() goes to its end instead, so that no tick finds an unconnected
\* client.
C15_NoLoopWithoutDisplay ==
    run_pc = "loop" => self.RPC = "connected"

\* C16: in the loop, no message and no tick ends the loop, whatever the
\* handler or the render raise; only the interrupt does.
C16_LoopSurvives ==
    [][run_pc = "loop" =>
          /\ run_pc' # "loop" => Interrupt
          /\ UpdatePresence => run_pc' = "loop"
          /\ \A msg \in RunMessages :
                OnMessage(msg) =>
                    run_pc' = "loop" /\ handled' \in {"merged", "ignored", "caught"}]_vars

\* The loop goes on with a connected display after a handler raised and a
\* render failed in formatting.
C16_Witness ==
    /\ run_pc = "loop"
    /\ self.RPC = "connected"
    /\ self.mqtt_client = "connected"
    /\ handled = "caught"
    /\ tick = "format_failed"
    /\ now > StartTime + sleep_seconds

---------------------------------------------------------------------------
(* Claim about a display call that hangs, checked under BlockSpec. *)

\* C17: while the main thread is held in a display call that does not
\* return, the MQTT thread can still take every report and can still run
\* the next statement of a merge it has begun, and a merge it finishes is
\* resolved.
C17_IngestionNotBlocked ==
    run_pc = "blocked" =>
        /\ mqtt_pc = 0 => \A msg \in BlockMessages : ENABLED Deliver(msg)
        /\ mqtt_pc > 0 => ENABLED HandlerStep
        /\ (mqtt_pc = 0 /\ handled = "merged") => stable = Telemetry(self)

\* A bed temperature was merged after the display call had hung.
C17_Witness ==
    /\ run_pc = "blocked"
    /\ mqtt_pc = 0
    /\ handled = "merged"
    /\ self.bed_temper = Num(60)
    /\ self.last_temp_update > ended.blocked_at
    /\ ended.blocked_at >= StartTime

---------------------------------------------------------------------------
(* Claim about the stored file name, checked under FileSpec. *)

\* The update of msg carries no file name or an empty one.
NoFileName(msg) ==
    "gcode_file" \notin DOMAIN PrintOf(msg) \/ ~Truthy(PrintOf(msg).gcode_file)

\* C19: a stored file name that is not empty stays not empty; an update
\* with an empty or absent gcode_file leaves last_known_file as it was; and
\* last_known_file changes only to a non-empty gcode_file that the update
\* being merged carries.
C19_FileNameNeverCleared ==
    [][/\ Truthy(self.last_known_file) => Truthy(self'.last_known_file)
       /\ self'.last_known_file # self.last_known_file =>
             /\ Truthy(self'.last_known_file)
             /\ \E msg \in FileMessages :
                   /\ ~NoFileName(msg)
                   /\ PrintOf(msg).gcode_file = self'.last_known_file
                   /\ OnMessage(msg)
       /\ \A msg \in FileMessages :
             (NoFileName(msg) /\ OnMessage(msg)) =>
                 self'.last_known_file = self.last_known_file]_vars

\* The name benchy.gcode was rendered, the update with the empty name (the
\* only one with a bed temperature) was merged after that, and the name is
\* still stored.
C19_Witness ==
    /\ presence.details = "benchy [----------] 0.0%"
    /\ temp_read_at.bed > presence.time
    /\ self.last_known_file = Str("benchy.gcode")

---------------------------------------------------------------------------
(* Claim about the target suffix, checked under TargetSpec. *)

\* A target greater than 0 is known.
TargetKnown(target) == IsNum(target) /\ target.num > 0

\* What a temperature is shown as without a suffix: its rounded value, or
\* the placeholder.
Unsuffixed(temp) == {format_temperature(temp), "???"}

\* text is a reading with the suffix of target.
Suffixed(text, temp, target) ==
    \E base \in Unsuffixed(temp) :
        text = base \o "/" \o ToString(target.num)

\* C20 for one temperature as stated: the suffix whenever a target greater
\* than 0 is known, and none otherwise.
SuffixWheneverKnown(text, temp, target) ==
    IF TargetKnown(target) THEN Suffixed(text, temp, target)
    ELSE text \in Unsuffixed(temp)

\* C20 as stated: in every emitted payload each temperature carries
\* '/<target>' whenever a target greater than 0 is known for it, and never
\* when no target was reported or the stored target is 0.
C20_SuffixWheneverTargetKnown ==
    [][(UpdatePresence /\ tick' = "emitted") =>
          /\ SuffixWheneverKnown(presence'.state.bed_temp, self.bed_temper,
                                 self.bed_target_temper)
          /\ SuffixWheneverKnown(presence'.state.nozzle_temp,
                                 self.nozzle_temper,
                                 self.nozzle_target_temper)]_vars

\* C20 for one temperature as amended: a line whose temperatures are stale
\* shows the bare placeholder; a line that is not stale shows the reading,
\* with the suffix exactly when a target greater than 0 is known.
SuffixUnlessStale(text, temp, target, stale) ==
    IF stale THEN text = "???"
    ELSE IF TargetKnown(target)
    THEN text = format_temperature(temp) \o "/" \o ToString(target.num)
    ELSE text = format_temperature(temp)

\* C20 amended: in every emitted payload whose temperatures are not stale
\* each temperature carries '/<target>' exactly when a target greater than
\* 0 is known for it; when the last temperature update is more than 5
\* seconds old both show '???' without a suffix, whatever targets are known.
C20_TargetSuffix ==
    [][(UpdatePresence /\ tick' = "emitted") =>
          LET stale == now - self.last_temp_update > temp_timeout
          IN /\ SuffixUnlessStale(presence'.state.bed_temp, self.bed_temper,
                                  self.bed_target_temper, stale)
             /\ SuffixUnlessStale(presence'.state.nozzle_temp,
                                  self.nozzle_temper,
                                  self.nozzle_target_temper, stale)]_vars

\* A payload shows the bed with its target and the nozzle, for which no
\* target is known, without one; the bed target has since been set to 0.
C20_Witness ==
    /\ tick = "emitted"
    /\ presence.state.bed_temp = "60/65"
    /\ presence.state.nozzle_temp = "210"
    /\ self.nozzle_target_temper = None

====
